---- MODULE Spec2Model ----
(***************************************************************************)
(* Payment-to-access pipeline of the learning-platform backend:            *)
(* payment intents (routes/razorpay.js), payment verification, enrollment  *)
(* creation, progress recording (routes/courses.js, models/Enrollment.js)  *)
(* and the access gate (middleware/courseAccess.js, middleware/auth.js).   *)
(*                                                                         *)
(* Every await of a handler is a point where other requests may run, so    *)
(* POST /verify-payment is a process with one action per await; the        *)
(* handlers modelled as one action are noted where they are defined.       *)
(* Strings that the code parses are sequences of one-character strings.    *)
(* Dates are whole days counted from 2024-01-01 (day 0).                   *)
(***************************************************************************)
EXTENDS Integers, Sequences, FiniteSets, TLC

VARIABLES
  users,        \* User collection: author_id -> [role, hasPaidRegistrationFee, registrationFeePayment]
  courses,      \* Course collection: c_id -> course document
  payments,     \* Payment collection: _id -> payment document
  enrollments,  \* Enrollment collection: sequence of documents in insertion order
  orders,       \* number of orders the gateway has issued; order n backs Payment n
  now,          \* the clock (new Date(), Date.now())
  req,          \* the POST /verify-payment requests in flight: slot -> position and locals
  retired,      \* c_ids of deleted courses (a uuid is never issued twice)
  deleting,     \* deleted courses whose enrollments and payments are not yet deleted
  gate          \* the last decision of an access-gate middleware

vars == <<users, courses, payments, enrollments, orders, now, req, retired, deleting, gate>>

(***************************************************************************)
(* Bounds of the model.                                                    *)
(***************************************************************************)
MaxPayments == 2

Users == {"u1", "u2", "u3"}
CourseIds == {"c1"}
Slots == {"r1", "r2"}
Instants == {0, 367}
GatewayPaymentIds == {"pay_1"}

Null == <<>>
NoUser == "anonymous"
NoCourse == "none"

(***************************************************************************)
(* Strings as character sequences, with the String/RegExp helpers the code  *)
(* uses on course.accessDuration.                                           *)
(***************************************************************************)
Digits == {"0", "1", "2", "3", "4", "5", "6", "7", "8", "9"}

DigitValue(ch) ==
  CASE ch = "0" -> 0 [] ch = "1" -> 1 [] ch = "2" -> 2 [] ch = "3" -> 3
    [] ch = "4" -> 4 [] ch = "5" -> 5 [] ch = "6" -> 6 [] ch = "7" -> 7
    [] ch = "8" -> 8 [] ch = "9" -> 9

\* String.prototype.includes
Includes(s, sub) ==
  \E i \in 1..(Len(s) - Len(sub) + 1) : SubSeq(s, i, i + Len(sub) - 1) = sub

\* s.match(/\d+/): the first maximal run of digits (element [0] of the match), or Null
MatchDigits(s) ==
  IF \A i \in 1..Len(s) : s[i] \notin Digits
  THEN Null
  ELSE LET first == CHOOSE i \in 1..Len(s) :
                      s[i] \in Digits /\ \A j \in 1..(i - 1) : s[j] \notin Digits
           last  == CHOOSE k \in first..Len(s) :
                      /\ \A j \in first..k : s[j] \in Digits
                      /\ (k = Len(s) \/ s[k + 1] \notin Digits)
       IN SubSeq(s, first, last)

RECURSIVE ParseInt(_)
\* parseInt of a string of decimal digits
ParseInt(ds) ==
  IF Len(ds) = 0 THEN 0
  ELSE 10 * ParseInt(SubSeq(ds, 1, Len(ds) - 1)) + DigitValue(ds[Len(ds)])

StrYear == <<"y", "e", "a", "r">>
StrMonth == <<"m", "o", "n", "t", "h">>
StrDay == <<"d", "a", "y">>
Str1Year == <<"1", " ", "y", "e", "a", "r">>
StrOneYear == <<"o", "n", "e", " ", "y", "e", "a", "r">>

(***************************************************************************)
(* Dates: JavaScript Date field arithmetic on whole days.                   *)
(***************************************************************************)
\* day 0 is 2024-01-01
IsLeap(y) == (y % 4 = 0 /\ y % 100 # 0) \/ y % 400 = 0

DaysInMonth(y, m) ==
  IF m = 2 THEN (IF IsLeap(y) THEN 29 ELSE 28)
  ELSE IF m \in {4, 6, 9, 11} THEN 30 ELSE 31

DaysInYear(y) == IF IsLeap(y) THEN 366 ELSE 365

RECURSIVE DaysBeforeYear(_)
DaysBeforeYear(y) ==
  IF y <= 2024 THEN 0 ELSE DaysBeforeYear(y - 1) + DaysInYear(y - 1)

RECURSIVE DaysBeforeMonth(_, _)
DaysBeforeMonth(y, m) ==
  IF m <= 1 THEN 0 ELSE DaysBeforeMonth(y, m - 1) + DaysInMonth(y, m - 1)

\* new Date(y, m, d) with the overflow normalisation of Date: a month past
\* December carries into the year, a day past the end of the month carries
\* into the following months
MakeDay(y, m, d) ==
  LET yy == y + ((m - 1) \div 12)
      mm == ((m - 1) % 12) + 1
  IN DaysBeforeYear(yy) + DaysBeforeMonth(yy, mm) + (d - 1)

RECURSIVE YearOf(_, _)
YearOf(n, y) == IF n < DaysInYear(y) THEN y ELSE YearOf(n - DaysInYear(y), y + 1)

RECURSIVE MonthOf(_, _, _)
MonthOf(n, y, m) ==
  IF n < DaysInMonth(y, m) THEN m ELSE MonthOf(n - DaysInMonth(y, m), y, m + 1)

\* getFullYear / getMonth (1-based here) / getDate
GetFullYear(n) == YearOf(n, 2024)
GetMonth(n) == MonthOf(n - DaysBeforeYear(GetFullYear(n)), GetFullYear(n), 1)
GetDate(n) == n - MakeDay(GetFullYear(n), GetMonth(n), 1) + 1

SetFullYear(n, y) == MakeDay(y, GetMonth(n), GetDate(n))
SetMonth(n, m) == MakeDay(GetFullYear(n), m, GetDate(n))
SetDate(n, d) == MakeDay(GetFullYear(n), GetMonth(n), d)

(***************************************************************************)
(* Documents.                                                              *)
(***************************************************************************)
Roles == {"student", "admin", "beta"}
PaymentStatuses == {"pending", "completed", "failed", "refunded", "cancelled"}
EnrollmentStatuses == {"active", "expired", "cancelled", "suspended"}

\* process.env.REGISTRATION_FEE_AMOUNT || 699
RegistrationFeeAmount == 699

\* crypto.createHmac('sha256', secret).update(`${orderId}|${paymentId}`).digest('hex'):
\* a value that only the holder of the secret can produce for the pair
Hmac(orderId, paymentId) == <<"hmac", orderId, paymentId>>
Forged == <<"forged">>

\* the record as it would be saved without the gateway's order handle
NewPayment_NoHandle(user, course, amount, paymentType, orderId) ==
  [user |-> user, course |-> course, amount |-> amount,
   paymentType |-> paymentType, status |-> "pending",
   orderId |-> 0, paymentId |-> "", signature |-> <<>>]

\* new Payment({...}) of the two order routes; status defaults to pending
NewPayment(user, course, amount, paymentType, orderId) ==
  [user |-> user, course |-> course, amount |-> amount,
   paymentType |-> paymentType, status |-> "pending",
   orderId |-> orderId, paymentId |-> "", signature |-> <<>>]

\* new Enrollment({user, course, payment, expiresAt}) with the schema defaults
NewEnrollment(user, course, payment, expiresAt, date) ==
  [user |-> user, course |-> course, payment |-> payment,
   enrolledAt |-> date, expiresAt |-> expiresAt, status |-> "active",
   completedTopics |-> <<>>, lastAccessedTopic |-> <<>>,
   completionPercentage |-> 0]

\* Enrollment.findOne({user, course, status: {$in: statuses}}): the first
\* matching document, or Null
RowsOf(rows, user, course, statuses) ==
  {i \in DOMAIN rows : rows[i].user = user /\ rows[i].course = course
                        /\ rows[i].status \in statuses}

FindEnrollment(rows, user, course, statuses) ==
  IF RowsOf(rows, user, course, statuses) = {} THEN 0
  ELSE CHOOSE i \in RowsOf(rows, user, course, statuses) :
         \A j \in RowsOf(rows, user, course, statuses) : i <= j

\* the index as it would be with the payment in the key: {user, course, payment}
DuplicateKey_PerPayment(rows, doc) ==
  \E i \in DOMAIN rows : /\ rows[i].user = doc.user
                         /\ rows[i].course = doc.course
                         /\ rows[i].payment = doc.payment

\* enrollmentSchema.index({user: 1, course: 1}, {unique: true}): an insert of
\* a second document with the same key is rejected (E11000 duplicate key)
DuplicateKey(rows, doc) ==
  \E i \in DOMAIN rows : rows[i].user = doc.user /\ rows[i].course = doc.course

\* enrollmentSchema.methods.isActive: status === 'active' && new Date() < this.expiresAt
isActive(e) ==
  e.status = "active" /\ now < e.expiresAt

(***************************************************************************)
(* Access gate: middleware/courseAccess.js and middleware/auth.js.          *)
(* A decision is the response the middleware sends, or next().             *)
(***************************************************************************)
Decision(outcome, amount, enrollment) ==
  [outcome |-> outcome, amount |-> amount, enrollment |-> enrollment]

\* requireRegistrationFee(req, res, next)
requireRegistrationFee(user) ==
  IF user = NoUser THEN Decision("Unauthenticated", 0, 0)
  ELSE IF users[user].role = "admin" \/ users[user].role = "beta"
  THEN Decision("Next", 0, 0)
  ELSE IF ~users[user].hasPaidRegistrationFee
  THEN Decision("RegistrationFeeRequired", RegistrationFeeAmount, 0)
  ELSE Decision("Next", 0, 0)

\* the middleware as it would be if it loaded the row whatever its status
checkCourseAccess_AnyStatus(user, courseId) ==
  LET e == FindEnrollment(enrollments, user, courseId, EnrollmentStatuses)
  IN IF user = NoUser THEN Decision("Unauthenticated", 0, 0)
     ELSE IF courseId \notin DOMAIN courses THEN Decision("NotFound", 0, 0)
     ELSE IF courses[courseId].status # "published" THEN Decision("NotPublished", 0, 0)
     ELSE IF e = 0 THEN Decision("NotEnrolled", courses[courseId].price, 0)
     ELSE IF now > enrollments[e].expiresAt THEN Decision("Expired", 0, 0)
     ELSE Decision("Admit", 0, e)

\* the middleware as it would be if it trusted the stored status alone
checkCourseAccess_StoredStatus(user, courseId) ==
  LET e == FindEnrollment(enrollments, user, courseId, {"active"})
  IN IF user = NoUser THEN Decision("Unauthenticated", 0, 0)
     ELSE IF courseId \notin DOMAIN courses THEN Decision("NotFound", 0, 0)
     ELSE IF courses[courseId].status # "published" THEN Decision("NotPublished", 0, 0)
     ELSE IF e = 0 THEN Decision("NotEnrolled", courses[courseId].price, 0)
     ELSE Decision("Admit", 0, e)

\* checkCourseAccess(req, res, next)
checkCourseAccess(user, courseId) ==
  LET e == FindEnrollment(enrollments, user, courseId, {"active"})
  IN IF user = NoUser THEN Decision("Unauthenticated", 0, 0)
     ELSE IF courseId \notin DOMAIN courses THEN Decision("NotFound", 0, 0)
     ELSE IF courses[courseId].status # "published" THEN Decision("NotPublished", 0, 0)
     ELSE IF e = 0 THEN Decision("NotEnrolled", courses[courseId].price, 0)
     ELSE IF now > enrollments[e].expiresAt THEN Decision("Expired", 0, 0)
     ELSE Decision("Admit", 0, e)

\* course.sections[sectionIndex].topics[topicIndex] resolves (indices from 0)
TopicResolves(courseId, sectionIndex, topicIndex) ==
  /\ courseId \in DOMAIN courses
  /\ sectionIndex + 1 \in DOMAIN courses[courseId].sections
  /\ topicIndex + 1 \in DOMAIN courses[courseId].sections[sectionIndex + 1]

\* the middleware as it would be with the enrollment lookup ahead of the
\* free-topic test
checkTopicAccess_EnrollmentFirst(user, courseId, sectionIndex, topicIndex) ==
  LET e == FindEnrollment(enrollments, user, courseId, {"active"})
  IN IF user = NoUser THEN Decision("Unauthenticated", 0, 0)
     ELSE IF courseId \notin DOMAIN courses THEN Decision("NotFound", 0, 0)
     ELSE IF sectionIndex + 1 \notin DOMAIN courses[courseId].sections
     THEN Decision("NotFound", 0, 0)
     ELSE IF topicIndex + 1 \notin DOMAIN courses[courseId].sections[sectionIndex + 1]
     THEN Decision("NotFound", 0, 0)
     ELSE IF e = 0 THEN Decision("NotEnrolled", courses[courseId].price, 0)
     ELSE IF now > enrollments[e].expiresAt THEN Decision("Expired", 0, 0)
     ELSE Decision("Admit", 0, e)

\* checkTopicAccess(req, res, next)
checkTopicAccess(user, courseId, sectionIndex, topicIndex) ==
  LET e == FindEnrollment(enrollments, user, courseId, {"active"})
  IN IF user = NoUser THEN Decision("Unauthenticated", 0, 0)
     ELSE IF courseId \notin DOMAIN courses THEN Decision("NotFound", 0, 0)
     ELSE IF sectionIndex + 1 \notin DOMAIN courses[courseId].sections
     THEN Decision("NotFound", 0, 0)
     ELSE IF topicIndex + 1 \notin DOMAIN courses[courseId].sections[sectionIndex + 1]
     THEN Decision("NotFound", 0, 0)
     ELSE IF courses[courseId].sections[sectionIndex + 1][topicIndex + 1]
     THEN Decision("Admit", 0, 0)
     ELSE IF e = 0 THEN Decision("NotEnrolled", courses[courseId].price, 0)
     ELSE IF now > enrollments[e].expiresAt THEN Decision("Expired", 0, 0)
     ELSE Decision("Admit", 0, e)

\* checkEnrollmentStatus(req, res, next): req.enrollment is the row of any status
checkEnrollmentStatus(user, courseId) ==
  IF user = NoUser THEN Decision("Unauthenticated", 0, 0)
  ELSE Decision("Next", 0, FindEnrollment(enrollments, user, courseId, EnrollmentStatuses))

\* the middleware as it would be if it asked the fee of every role
checkEnrollmentEligibility_AnyRole(user, courseId) ==
  IF user = NoUser THEN Decision("Unauthenticated", 0, 0)
  ELSE IF ~users[user].hasPaidRegistrationFee
  THEN Decision("RegistrationFeeRequired", RegistrationFeeAmount, 0)
  ELSE IF FindEnrollment(enrollments, user, courseId, {"active", "expired"}) # 0
  THEN Decision("AlreadyEnrolled", 0,
                FindEnrollment(enrollments, user, courseId, {"active", "expired"}))
  ELSE IF courseId \notin DOMAIN courses THEN Decision("NotFound", 0, 0)
  ELSE IF courses[courseId].status # "published" THEN Decision("NotPublished", 0, 0)
  ELSE Decision("Eligible", 0, 0)

\* checkEnrollmentEligibility(req, res, next)
checkEnrollmentEligibility(user, courseId) ==
  IF user = NoUser THEN Decision("Unauthenticated", 0, 0)
  ELSE IF ~users[user].hasPaidRegistrationFee /\ users[user].role = "student"
  THEN Decision("RegistrationFeeRequired", RegistrationFeeAmount, 0)
  ELSE IF FindEnrollment(enrollments, user, courseId, {"active", "expired"}) # 0
  THEN Decision("AlreadyEnrolled", 0,
                FindEnrollment(enrollments, user, courseId, {"active", "expired"}))
  ELSE IF courseId \notin DOMAIN courses THEN Decision("NotFound", 0, 0)
  ELSE IF courses[courseId].status # "published" THEN Decision("NotPublished", 0, 0)
  ELSE Decision("Eligible", 0, 0)

NoGate ==
  [op |-> "none", user |-> NoUser, course |-> NoCourse, section |-> 0, topic |-> 0,
   decision |-> Decision("none", 0, 0)]

\* a request as it would be if a middleware that finds the access expired
\* wrote that into the row
GateRequest_MarksExpired(op, user, courseId, sectionIndex, topicIndex, decision) ==
  /\ gate' = [op |-> op, user |-> user, course |-> courseId,
              section |-> sectionIndex, topic |-> topicIndex, decision |-> decision]
  /\ enrollments' =
       IF decision.outcome = "Expired"
       THEN [i \in DOMAIN enrollments |->
               IF enrollments[i].user = user /\ enrollments[i].course = courseId
               THEN [enrollments[i] EXCEPT !.status = "expired"]
               ELSE enrollments[i]]
       ELSE enrollments
  /\ UNCHANGED <<users, courses, payments, orders, now, req, retired, deleting>>

GateRequest(op, user, courseId, sectionIndex, topicIndex, decision) ==
  /\ gate' = [op |-> op, user |-> user, course |-> courseId,
              section |-> sectionIndex, topic |-> topicIndex, decision |-> decision]
  /\ UNCHANGED <<users, courses, payments, enrollments, orders, now, req, retired, deleting>>

\* GET /:courseId/content behind checkCourseAccess
CourseAccessRequest(user, courseId) ==
  GateRequest("courseAccess", user, courseId, 0, 0, checkCourseAccess(user, courseId))

\* GET /:courseId/topic/:sectionIndex/:topicIndex behind checkTopicAccess
TopicAccessRequest(user, courseId, sectionIndex, topicIndex) ==
  GateRequest("topicAccess", user, courseId, sectionIndex, topicIndex,
              checkTopicAccess(user, courseId, sectionIndex, topicIndex))

\* GET /:courseId/enrollment-status behind checkEnrollmentStatus
EnrollmentStatusRequest(user, courseId) ==
  GateRequest("enrollmentStatus", user, courseId, 0, 0, checkEnrollmentStatus(user, courseId))

\* POST /:courseId/enroll behind checkEnrollmentEligibility
EnrollRequest(user, courseId) ==
  GateRequest("enrollmentEligibility", user, courseId, 0, 0,
              checkEnrollmentEligibility(user, courseId))

\* a route behind requireRegistrationFee
RegistrationFeeRequest(user) ==
  GateRequest("requireRegistrationFee", user, NoCourse, 0, 0, requireRegistrationFee(user))

(***************************************************************************)
(* Payment intents: routes/razorpay.js.  Each of the two routes is one      *)
(* action; it changes the store only in its last await (payment.save()).   *)
(* razorpay.orders.create either returns a new order or throws, and a      *)
(* request it throws on changes nothing.                                   *)
(***************************************************************************)
\* the route as it would be without the test of the caller's flag
RegistrationOrderOutcome_NoFlagCheck(user) ==
  IF user = NoUser THEN "Unauthenticated" ELSE "CreateOrder"

\* POST /create-registration-order up to the gateway call
RegistrationOrderOutcome(user) ==
  IF user = NoUser THEN "Unauthenticated"
  ELSE IF users[user].hasPaidRegistrationFee THEN "AlreadySatisfied"
  ELSE "CreateOrder"

\* the route as it would be if only a row stored as active counted
CourseOrderOutcome_ActiveOnly(user, courseId) ==
  IF requireRegistrationFee(user).outcome # "Next" THEN requireRegistrationFee(user).outcome
  ELSE IF courseId = NoCourse THEN "CourseIdRequired"
  ELSE IF courseId \notin DOMAIN courses THEN "NotFound"
  ELSE IF courses[courseId].status # "published" THEN "NotPublished"
  ELSE IF FindEnrollment(enrollments, user, courseId, {"active"}) # 0
  THEN "AlreadyEnrolled"
  ELSE "CreateOrder"

\* the route as it would be without the test of the course status
CourseOrderOutcome_AnyStatus(user, courseId) ==
  IF requireRegistrationFee(user).outcome # "Next" THEN requireRegistrationFee(user).outcome
  ELSE IF courseId = NoCourse THEN "CourseIdRequired"
  ELSE IF courseId \notin DOMAIN courses THEN "NotFound"
  ELSE IF FindEnrollment(enrollments, user, courseId, {"active", "expired"}) # 0
  THEN "AlreadyEnrolled"
  ELSE "CreateOrder"

\* the route as it would be without requireRegistrationFee in its chain
CourseOrderOutcome_NoFeeGate(user, courseId) ==
  IF user = NoUser THEN "Unauthenticated"
  ELSE IF courseId = NoCourse THEN "CourseIdRequired"
  ELSE IF courseId \notin DOMAIN courses THEN "NotFound"
  ELSE IF courses[courseId].status # "published" THEN "NotPublished"
  ELSE IF FindEnrollment(enrollments, user, courseId, {"active", "expired"}) # 0
  THEN "AlreadyEnrolled"
  ELSE "CreateOrder"

\* POST /create-course-order up to the gateway call
CourseOrderOutcome(user, courseId) ==
  IF requireRegistrationFee(user).outcome # "Next" THEN requireRegistrationFee(user).outcome
  ELSE IF courseId = NoCourse THEN "CourseIdRequired"
  ELSE IF courseId \notin DOMAIN courses THEN "NotFound"
  ELSE IF courses[courseId].status # "published" THEN "NotPublished"
  ELSE IF FindEnrollment(enrollments, user, courseId, {"active", "expired"}) # 0
  THEN "AlreadyEnrolled"
  ELSE "CreateOrder"

CreateRegistrationOrder(user) ==
  /\ orders < MaxPayments
  /\ RegistrationOrderOutcome(user) = "CreateOrder"
  /\ orders' = orders + 1
  /\ payments' = (orders + 1 :> NewPayment(user, NoCourse, RegistrationFeeAmount,
                                           "registration", orders + 1)) @@ payments
  /\ UNCHANGED <<users, courses, enrollments, now, req, retired, deleting, gate>>

CreateCourseOrder(user, courseId) ==
  /\ orders < MaxPayments
  /\ CourseOrderOutcome(user, courseId) = "CreateOrder"
  /\ orders' = orders + 1
  /\ payments' = (orders + 1 :> NewPayment(user, courseId, courses[courseId].price,
                                           "course", orders + 1)) @@ payments
  /\ UNCHANGED <<users, courses, enrollments, now, req, retired, deleting, gate>>

\* POST /create-registration-order answered 400 before the gateway call
RegistrationOrderRejected(user) ==
  /\ RegistrationOrderOutcome(user) # "CreateOrder"
  /\ GateRequest("createRegistrationOrder", user, NoCourse, 0, 0,
                 Decision(RegistrationOrderOutcome(user), 0, 0))

\* POST /create-course-order answered by requireRegistrationFee or by one of
\* the handler's checks before the gateway call
CourseOrderRejected(user, courseId) ==
  /\ CourseOrderOutcome(user, courseId) # "CreateOrder"
  /\ GateRequest("createCourseOrder", user, courseId, 0, 0,
                 Decision(CourseOrderOutcome(user, courseId), 0, 0))

\* razorpay.orders.create rejects: the catch block answers 500
RegistrationOrderGatewayFails(user) ==
  /\ RegistrationOrderOutcome(user) = "CreateOrder"
  /\ GateRequest("createRegistrationOrder", user, NoCourse, 0, 0,
                 Decision("Error500", 0, 0))

CourseOrderGatewayFails(user, courseId) ==
  /\ CourseOrderOutcome(user, courseId) = "CreateOrder"
  /\ GateRequest("createCourseOrder", user, courseId, 0, 0,
                 Decision("Error500", 0, 0))

(***************************************************************************)
(* POST /verify-payment: routes/razorpay.js.                                *)
(***************************************************************************)
IdleReq ==
  [pc |-> "idle", caller |-> NoUser, paymentId |-> 0, paymentType |-> "", user |-> NoUser,
   course |-> NoCourse, gatewayPaymentId |-> "", signature |-> <<>>,
   enrolledAt |-> 0, expiresAt |-> 0, section |-> 0, topic |-> 0, doc |-> <<>>,
   res |-> "none"]

Done(r, res) == [IdleReq EXCEPT !.pc = "done", !.paymentId = r.paymentId, !.res = res]

\* the signatures a caller can present: those the gateway issued for a paid
\* order, a made-up one, or none
KnownSignatures ==
  {Hmac(o, g) : o \in 1..orders, g \in GatewayPaymentIds} \cup {Forged, <<>>}

\* the checks as they would be with the lookup ahead of the signature check
VerifyOutcome_LookupFirst(paymentId, orderId, signature, razorpay_payment_id) ==
  IF paymentId = 0 \/ orderId = 0 \/ signature = <<>> THEN "MissingData"
  ELSE IF paymentId \notin DOMAIN payments THEN "NotFound"
  ELSE IF payments[paymentId].status = "completed" THEN "AlreadyProcessed"
  ELSE IF Hmac(orderId, razorpay_payment_id) # signature THEN "SignatureMismatch"
  ELSE "Proceed"

\* lines 219-255: validation, signature check, Payment.findById, status check
VerifyOutcome(paymentId, orderId, signature, razorpay_payment_id) ==
  IF paymentId = 0 \/ orderId = 0 \/ signature = <<>> THEN "MissingData"
  ELSE IF Hmac(orderId, razorpay_payment_id) # signature THEN "SignatureMismatch"
  ELSE IF paymentId \notin DOMAIN payments THEN "NotFound"
  ELSE IF payments[paymentId].status = "completed" THEN "AlreadyProcessed"
  ELSE "Proceed"

\* a request of an authenticated caller (req.user, which the handler never
\* reads) that passes the checks: the handler goes on to payment.save()
VerifyStartBy(caller, r, paymentId, orderId, signature, razorpay_payment_id) ==
  /\ req[r].pc = "idle"
  /\ caller # NoUser
  /\ VerifyOutcome(paymentId, orderId, signature, razorpay_payment_id) = "Proceed"
  /\ req' = [req EXCEPT ![r] =
       [IdleReq EXCEPT !.pc = "save", !.caller = caller, !.paymentId = paymentId,
                       !.paymentType = payments[paymentId].paymentType,
                       !.user = payments[paymentId].user,
                       !.course = payments[paymentId].course,
                       !.gatewayPaymentId = razorpay_payment_id,
                       !.signature = signature]]
  /\ UNCHANGED <<users, courses, payments, enrollments, orders, now, retired, deleting, gate>>

\* the same request sent by the owner of the Payment
VerifyStart(r, paymentId, orderId, signature, razorpay_payment_id) ==
  /\ paymentId \in DOMAIN payments
  /\ VerifyStartBy(payments[paymentId].user, r, paymentId, orderId, signature,
                   razorpay_payment_id)

\* a request that one of the checks answers with 400 or 404
VerifyReject(r, paymentId, orderId, signature, razorpay_payment_id) ==
  /\ req[r].pc = "idle"
  /\ VerifyOutcome(paymentId, orderId, signature, razorpay_payment_id) # "Proceed"
  /\ req' = [req EXCEPT ![r] =
       [IdleReq EXCEPT !.pc = "done", !.paymentId = paymentId,
                       !.res = VerifyOutcome(paymentId, orderId, signature,
                                             razorpay_payment_id)]]
  /\ UNCHANGED <<users, courses, payments, enrollments, orders, now, retired, deleting, gate>>

\* the save as it would be if it took the amount from the course again
VerifySave_Reprices(r) ==
  /\ req[r].pc = "save"
  /\ IF req[r].paymentId \in DOMAIN payments
     THEN /\ payments' = [payments EXCEPT ![req[r].paymentId] =
                 [@ EXCEPT !.status = "completed",
                           !.paymentId = req[r].gatewayPaymentId,
                           !.signature = req[r].signature,
                           !.amount = IF req[r].course \in DOMAIN courses
                                      THEN courses[req[r].course].price ELSE @]]
          /\ req' = [req EXCEPT ![r].pc =
                 IF req[r].paymentType = "registration" THEN "user" ELSE "course"]
     ELSE /\ req' = [req EXCEPT ![r] = Done(req[r], "Error500")]
          /\ UNCHANGED payments
  /\ UNCHANGED <<users, courses, enrollments, orders, now, retired, deleting, gate>>

\* lines 257-261: payment.save() writes the modified paths of the loaded
\* document; it rejects when the document is no longer in the collection
VerifySave(r) ==
  /\ req[r].pc = "save"
  /\ IF req[r].paymentId \in DOMAIN payments
     THEN /\ payments' = [payments EXCEPT ![req[r].paymentId] =
                 [@ EXCEPT !.status = "completed",
                           !.paymentId = req[r].gatewayPaymentId,
                           !.signature = req[r].signature]]
          /\ req' = [req EXCEPT ![r].pc =
                 IF req[r].paymentType = "registration" THEN "user" ELSE "course"]
     ELSE /\ req' = [req EXCEPT ![r] = Done(req[r], "Error500")]
          /\ UNCHANGED payments
  /\ UNCHANGED <<users, courses, enrollments, orders, now, retired, deleting, gate>>

\* the _id of a User document, and the value the handler passes as the id
ObjectIdOf(user) == [kind |-> "ObjectId", of |-> user]
AuthorIdFilter(user) == [kind |-> "filter", of |-> user]

\* User.findByIdAndUpdate(id, update): id is cast to the type of _id; a value
\* that is not an ObjectId does not cast and the query rejects (CastError)
UserFindByIdAndUpdate(id, paymentId) ==
  IF id.kind # "ObjectId"
  THEN [error |-> TRUE, users |-> users]
  ELSE [error |-> FALSE,
        users |-> [u \in Users |->
                     IF ObjectIdOf(u) = id
                     THEN [users[u] EXCEPT !.hasPaidRegistrationFee = TRUE,
                                           !.registrationFeePayment = paymentId]
                     ELSE users[u]]]

\* lines 264-278: the registration branch
VerifyUpdateUser(r) ==
  /\ req[r].pc = "user"
  /\ LET upd == UserFindByIdAndUpdate(AuthorIdFilter(req[r].user), req[r].paymentId)
     IN /\ users' = upd.users
        /\ req' = [req EXCEPT ![r] =
             Done(req[r], IF upd.error THEN "Error500" ELSE "RegistrationOk")]
  /\ UNCHANGED <<courses, payments, enrollments, orders, now, retired, deleting, gate>>

\* lines 290-301: the expiration date; the [0] of a null match throws
AccessDurationOf(course) ==
  IF course.accessDuration = <<>> THEN Str1Year ELSE course.accessDuration

ExpiryThrows(accessDuration) ==
  /\ \/ Includes(accessDuration, StrYear)
     \/ Includes(accessDuration, StrMonth)
     \/ Includes(accessDuration, StrDay)
  /\ MatchDigits(accessDuration) = Null

ExpiresAt(accessDuration, date) ==
  IF Includes(accessDuration, StrYear)
  THEN SetFullYear(date, GetFullYear(date) + ParseInt(MatchDigits(accessDuration)))
  ELSE IF Includes(accessDuration, StrMonth)
  THEN SetMonth(date, GetMonth(date) + ParseInt(MatchDigits(accessDuration)))
  ELSE IF Includes(accessDuration, StrDay)
  THEN SetDate(date, GetDate(date) + ParseInt(MatchDigits(accessDuration)))
  ELSE date

\* lines 279-309: Course.findOne, the expiration date, new Enrollment(...)
VerifyFindCourse(r) ==
  /\ req[r].pc = "course"
  /\ req' = [req EXCEPT ![r] =
       IF req[r].course \notin DOMAIN courses
       THEN Done(req[r], "CourseNotFound")
       ELSE IF ExpiryThrows(AccessDurationOf(courses[req[r].course]))
       THEN Done(req[r], "Error500")
       ELSE [req[r] EXCEPT !.pc = "insert", !.enrolledAt = now,
               !.expiresAt = ExpiresAt(AccessDurationOf(courses[req[r].course]), now)]]
  /\ UNCHANGED <<users, courses, payments, enrollments, orders, now, retired, deleting, gate>>

\* the insert as it would be on a collection without the index
InsertEnrollment_NoIndex(rows, doc) == [error |-> FALSE, rows |-> Append(rows, doc)]

\* the insert as it would be if a save replaced the row of the same pair
InsertEnrollment_Upsert(rows, doc) ==
  IF DuplicateKey(rows, doc)
  THEN [error |-> FALSE,
        rows |-> [i \in DOMAIN rows |->
                    IF rows[i].user = doc.user /\ rows[i].course = doc.course
                    THEN doc ELSE rows[i]]]
  ELSE [error |-> FALSE, rows |-> Append(rows, doc)]

\* Enrollment collection insert under the unique (user, course) index
InsertEnrollment(rows, doc) ==
  IF DuplicateKey(rows, doc)
  THEN [error |-> TRUE, rows |-> rows]
  ELSE [error |-> FALSE, rows |-> Append(rows, doc)]

\* line 311: enrollment.save()
VerifyInsert(r) ==
  /\ req[r].pc = "insert"
  /\ LET ins == InsertEnrollment(enrollments,
                  NewEnrollment(req[r].user, req[r].course, req[r].paymentId,
                                req[r].expiresAt, req[r].enrolledAt))
     IN /\ enrollments' = ins.rows
        /\ req' = [req EXCEPT ![r] =
             IF ins.error THEN Done(req[r], "Error500")
             ELSE [req[r] EXCEPT !.pc = "count"]]
  /\ UNCHANGED <<users, courses, payments, orders, now, retired, deleting, gate>>

\* lines 313-328: Course.findByIdAndUpdate(course._id, {$inc: {enrollmentCount: 1}});
\* it updates nothing when the course is gone
VerifyCount(r) ==
  /\ req[r].pc = "count"
  /\ courses' = IF req[r].course \in DOMAIN courses
                THEN [courses EXCEPT ![req[r].course].enrollmentCount = @ + 1]
                ELSE courses
  /\ req' = [req EXCEPT ![r] = Done(req[r], "CourseOk")]
  /\ UNCHANGED <<users, payments, enrollments, orders, now, retired, deleting, gate>>

\* the response has been delivered
VerifyRespond(r) ==
  /\ req[r].pc = "done"
  /\ req' = [req EXCEPT ![r] = IdleReq]
  /\ UNCHANGED <<users, courses, payments, enrollments, orders, now, retired, deleting, gate>>

(***************************************************************************)
(* POST /:courseId/topic/:sectionIndex/:topicIndex/progress:                *)
(* routes/courses.js with models/Enrollment.js, as one action.             *)
(***************************************************************************)
\* Math.round(x / y * 100) for non-negative x and positive y
RoundPercent(x, y) == (200 * x + y) \div (2 * y)

RECURSIVE SumLen(_)
\* course.sections.reduce((total, section) => total + section.topics.length, 0)
SumLen(sections) ==
  IF sections = <<>> THEN 0 ELSE Len(Head(sections)) + SumLen(Tail(sections))

\* the method as it would be without the search for the pair
updateProgress_AlwaysPush(e, sectionIndex, topicIndex, date) ==
  [e EXCEPT
     !.completedTopics =
        Append(@, [sectionIndex |-> sectionIndex, topicIndex |-> topicIndex,
                   completedAt |-> date]),
     !.lastAccessedTopic =
        <<[sectionIndex |-> sectionIndex, topicIndex |-> topicIndex,
           lastAccessedAt |-> date]>>]

\* the method as it would be if activity pushed the expiry back
updateProgress_ExtendsAccess(e, sectionIndex, topicIndex, date) ==
  [e EXCEPT
     !.completedTopics =
        IF \E i \in DOMAIN e.completedTopics :
              /\ e.completedTopics[i].sectionIndex = sectionIndex
              /\ e.completedTopics[i].topicIndex = topicIndex
        THEN @
        ELSE Append(@, [sectionIndex |-> sectionIndex, topicIndex |-> topicIndex,
                        completedAt |-> date]),
     !.lastAccessedTopic =
        <<[sectionIndex |-> sectionIndex, topicIndex |-> topicIndex,
           lastAccessedAt |-> date]>>,
     !.expiresAt = @ + 1]

\* enrollmentSchema.methods.updateProgress
updateProgress(e, sectionIndex, topicIndex, date) ==
  [e EXCEPT
     !.completedTopics =
        IF \E i \in DOMAIN e.completedTopics :
              /\ e.completedTopics[i].sectionIndex = sectionIndex
              /\ e.completedTopics[i].topicIndex = topicIndex
        THEN @
        ELSE Append(@, [sectionIndex |-> sectionIndex, topicIndex |-> topicIndex,
                        completedAt |-> date]),
     !.lastAccessedTopic =
        <<[sectionIndex |-> sectionIndex, topicIndex |-> topicIndex,
           lastAccessedAt |-> date]>>]

\* the method as it would be with Math.floor in place of Math.round
calculateCompletionPercentage_Floor(e) ==
  IF e.course \notin DOMAIN courses THEN e
  ELSE [e EXCEPT !.completionPercentage =
          IF SumLen(courses[e.course].sections) > 0
          THEN (100 * Len(e.completedTopics)) \div SumLen(courses[e.course].sections)
          ELSE 0]

\* enrollmentSchema.methods.calculateCompletionPercentage
calculateCompletionPercentage(e) ==
  IF e.course \notin DOMAIN courses THEN e
  ELSE [e EXCEPT !.completionPercentage =
          IF SumLen(courses[e.course].sections) > 0
          THEN RoundPercent(Len(e.completedTopics), SumLen(courses[e.course].sections))
          ELSE 0]

\* the schema's validator of progress.completionPercentage (min 0, max 100),
\* run by save() on the modified path
PercentageValid(e) == e.completionPercentage >= 0 /\ e.completionPercentage <= 100

\* the row in the collection after the handler's two saves: the save of
\* updateProgress, then the save of calculateCompletionPercentage, which is
\* rejected and writes nothing when the validator fails
ProgressSaved(e, sectionIndex, topicIndex, date) ==
  IF PercentageValid(calculateCompletionPercentage(
                       updateProgress(e, sectionIndex, topicIndex, date)))
  THEN calculateCompletionPercentage(updateProgress(e, sectionIndex, topicIndex, date))
  ELSE updateProgress(e, sectionIndex, topicIndex, date)

\* the answer of the progress route: the middleware's refusal, 403 when the
\* middleware passed the request on without req.enrollment, 500 when a save
\* was rejected, else the progress
ProgressOutcome(user, courseId, sectionIndex, topicIndex) ==
  LET d == checkTopicAccess(user, courseId, sectionIndex, topicIndex)
  IN IF d.outcome # "Admit" THEN d
     ELSE IF d.enrollment = 0 THEN Decision("NotEnrolled", 0, 0)
     ELSE IF ~PercentageValid(calculateCompletionPercentage(
                 updateProgress(enrollments[d.enrollment], sectionIndex, topicIndex, now)))
     THEN Decision("Error500", 0, d.enrollment)
     ELSE Decision("ProgressOk", 0, d.enrollment)

\* the handler behind checkTopicAccess: a request the middleware passes
\* without req.enrollment is answered 403 and changes nothing
RecordProgress(user, courseId, sectionIndex, topicIndex) ==
  LET d == checkTopicAccess(user, courseId, sectionIndex, topicIndex)
  IN /\ d.outcome = "Admit"
     /\ d.enrollment # 0
     /\ enrollments' = [enrollments EXCEPT ![d.enrollment] =
          ProgressSaved(@, sectionIndex, topicIndex, now)]
     /\ UNCHANGED <<users, courses, payments, orders, now, req, retired, deleting, gate>>

\* the same request with its answer observed
ProgressRequest(user, courseId, sectionIndex, topicIndex) ==
  LET d == ProgressOutcome(user, courseId, sectionIndex, topicIndex)
  IN /\ gate' = [op |-> "recordProgress", user |-> user, course |-> courseId,
                 section |-> sectionIndex, topic |-> topicIndex, decision |-> d]
     /\ enrollments' =
          IF d.outcome \in {"ProgressOk", "Error500"}
          THEN [enrollments EXCEPT ![d.enrollment] =
                  ProgressSaved(@, sectionIndex, topicIndex, now)]
          ELSE enrollments
     /\ UNCHANGED <<users, courses, payments, orders, now, req, retired, deleting>>

(***************************************************************************)
(* Course administration: routes/admin.js.                                  *)
(***************************************************************************)
SectionTrees == {<< <<TRUE, FALSE>> >>}
AccessDurations == {Str1Year, StrOneYear}
CourseStatuses == {"draft", "published", "archived"}

\* POST /api/admin/courses
AdminCreateCourse(courseId, status, accessDuration, sections) ==
  /\ courseId \notin DOMAIN courses
  /\ courseId \notin retired
  /\ courses' = (courseId :> [status |-> status, price |-> 500,
                              accessDuration |-> accessDuration,
                              sections |-> sections, enrollmentCount |-> 0]) @@ courses
  /\ UNCHANGED <<users, payments, enrollments, orders, now, req, retired, deleting, gate>>

\* PUT /api/admin/courses/:courseId with a body that sets one field
AdminUpdateCourse(courseId, field, value) ==
  /\ courseId \in DOMAIN courses
  /\ courses[courseId][field] # value
  /\ courses' = [courses EXCEPT ![courseId][field] = value]
  /\ UNCHANGED <<users, payments, enrollments, orders, now, req, retired, deleting, gate>>

\* DELETE /api/admin/courses/:courseId, first await: Course.findOneAndDelete
AdminDeleteCourse(courseId) ==
  /\ courseId \in DOMAIN courses
  /\ courses' = [c \in DOMAIN courses \ {courseId} |-> courses[c]]
  /\ retired' = retired \cup {courseId}
  /\ deleting' = deleting \cup {courseId}
  /\ UNCHANGED <<users, payments, enrollments, orders, now, req, gate>>

\* SelectSeq with a predicate on the document
RECURSIVE WithoutCourse(_, _)
WithoutCourse(rows, courseId) ==
  IF rows = <<>> THEN <<>>
  ELSE IF Head(rows).course = courseId THEN WithoutCourse(Tail(rows), courseId)
  ELSE <<Head(rows)>> \o WithoutCourse(Tail(rows), courseId)

\* DELETE /api/admin/courses/:courseId, second await: Enrollment.deleteMany
\* and Payment.deleteMany on the course
AdminDeleteRelated(courseId) ==
  /\ courseId \in deleting
  /\ deleting' = deleting \ {courseId}
  /\ enrollments' = WithoutCourse(enrollments, courseId)
  /\ payments' = [p \in {q \in DOMAIN payments : payments[q].course # courseId}
                    |-> payments[p]]
  /\ UNCHANGED <<users, courses, orders, now, req, retired, gate>>

(***************************************************************************)
(* The Payment model's own status methods: models/Payment.js.  No route     *)
(* calls them; they are what an administrative caller has.                  *)
(***************************************************************************)
\* paymentSchema.methods.markAsCompleted
markAsCompleted(paymentId, gatewayPaymentId, signature) ==
  /\ paymentId \in DOMAIN payments
  /\ payments[paymentId].status # "completed"
  /\ payments' = [payments EXCEPT ![paymentId] =
       [@ EXCEPT !.status = "completed", !.paymentId = gatewayPaymentId,
                 !.signature = signature]]
  /\ UNCHANGED <<users, courses, enrollments, orders, now, req, retired, deleting, gate>>

\* paymentSchema.methods.markAsFailed
markAsFailed(paymentId) ==
  /\ paymentId \in DOMAIN payments
  /\ payments[paymentId].status # "failed"
  /\ payments' = [payments EXCEPT ![paymentId].status = "failed"]
  /\ UNCHANGED <<users, courses, enrollments, orders, now, req, retired, deleting, gate>>

\* paymentSchema.methods.processRefund
processRefund(paymentId) ==
  /\ paymentId \in DOMAIN payments
  /\ payments[paymentId].status # "refunded"
  /\ payments' = [payments EXCEPT ![paymentId].status = "refunded"]
  /\ UNCHANGED <<users, courses, enrollments, orders, now, req, retired, deleting, gate>>

(***************************************************************************)
(* The clock, observed at the instants of Instants.                         *)
(***************************************************************************)
Tick ==
  /\ \E t \in Instants : t > now
  /\ now' = CHOOSE t \in Instants : t > now /\ \A t2 \in Instants : t2 > now => t <= t2
  /\ UNCHANGED <<users, courses, payments, enrollments, orders, req, retired, deleting, gate>>

(***************************************************************************)
(* The pipeline: an empty store with the accounts of the identity           *)
(* provider (a student who has not paid the fee, and the beta and admin     *)
(* accounts of scripts/createDefaultAccounts.js).                           *)
(***************************************************************************)
UserDoc(role, paid) ==
  [role |-> role, hasPaidRegistrationFee |-> paid, registrationFeePayment |-> 0]

Init ==
  /\ users = ("u1" :> UserDoc("student", FALSE)) @@ ("u2" :> UserDoc("beta", TRUE))
               @@ ("u3" :> UserDoc("admin", TRUE))
  /\ courses = <<>>
  /\ payments = <<>>
  /\ enrollments = <<>>
  /\ orders = 0
  /\ now = 0
  /\ req = [r \in Slots |-> IdleReq]
  /\ retired = {}
  /\ deleting = {}
  /\ gate = NoGate

\* the requests a caller can send: any payment id, the handle of an issued
\* order, a gateway payment id and a signature (0 and <<>>: field left out)
VerifyStarts(r) ==
  \E p \in 0..MaxPayments, o \in 0..orders, sig \in KnownSignatures,
     g \in GatewayPaymentIds : VerifyStart(r, p, o, sig, g)

VerifyRejects(r) ==
  \E p \in 0..MaxPayments, o \in 0..orders, sig \in KnownSignatures,
     g \in GatewayPaymentIds : VerifyReject(r, p, o, sig, g)

\* the requests of clients that send the order handle and the gateway's
\* signature their payment was paid with
VerifyPaid(r) ==
  \E p \in DOMAIN payments, g \in GatewayPaymentIds :
    VerifyStart(r, p, payments[p].orderId, Hmac(payments[p].orderId, g), g)

AdminCourses ==
  \E c \in CourseIds :
    \/ \E d \in AccessDurations, tree \in SectionTrees :
         AdminCreateCourse(c, "published", d, tree)
    \/ AdminDeleteCourse(c)
    \/ AdminDeleteRelated(c)

\* the pipeline with one verify request at a time
Next ==
  \/ \E u \in Users : CreateRegistrationOrder(u)
  \/ \E u \in Users, c \in CourseIds : CreateCourseOrder(u, c)
  \/ VerifyPaid("r1")
  \/ VerifyRejects("r1")
  \/ VerifySave("r1")
  \/ VerifyUpdateUser("r1")
  \/ VerifyFindCourse("r1")
  \/ VerifyInsert("r1")
  \/ VerifyCount("r1")
  \/ VerifyRespond("r1")
  \/ \E u \in Users, c \in CourseIds, si \in 0..1, ti \in 0..1 : RecordProgress(u, c, si, ti)
  \/ AdminCourses
  \/ Tick

Spec == Init /\ [][Next]_vars

\* course purchases with two verify requests in flight
NextRace ==
  \/ \E u \in Users, c \in CourseIds : CreateCourseOrder(u, c)
  \/ \E r \in Slots : \/ VerifyPaid(r)
                      \/ VerifySave(r)
                      \/ VerifyFindCourse(r)
                      \/ VerifyInsert(r)
                      \/ VerifyCount(r)
                      \/ VerifyRespond(r)
  \/ \E u \in Users, c \in CourseIds, si \in 0..1, ti \in 0..1 : RecordProgress(u, c, si, ti)
  \/ AdminCourses

SpecRace == Init /\ [][NextRace]_vars

\* the pipeline with the Payment model's status methods, and with verify
\* requests that present the signature of any paid order
NextMethods ==
  \/ Next
  \/ VerifyStarts("r1")
  \/ \E p \in 1..MaxPayments, g \in GatewayPaymentIds : markAsCompleted(p, g, Forged)
  \/ \E p \in 1..MaxPayments : markAsFailed(p)
  \/ \E p \in 1..MaxPayments : processRefund(p)

SpecMethods == Init /\ [][NextMethods]_vars

(***************************************************************************)
(* The access gate on its own: the store is drawn from the documents the    *)
(* pipeline and the administrative status values can leave behind, and a    *)
(* request applies one middleware to it.                                    *)
(***************************************************************************)
GateInstants == {365, 366, 367}
GateCourses == CourseIds \cup {"c9"}
GateCallers == {"u1", NoUser}

InitGate ==
  /\ \E role \in Roles, paid \in BOOLEAN :
       users = ("u1" :> UserDoc(role, paid)) @@ ("u2" :> UserDoc("beta", TRUE))
                 @@ ("u3" :> UserDoc("admin", TRUE))
  /\ \/ courses = <<>>
     \/ \E st \in CourseStatuses, tree \in SectionTrees :
          courses = ("c1" :> [status |-> st, price |-> 500, accessDuration |-> Str1Year,
                              sections |-> tree, enrollmentCount |-> 0])
  /\ payments = <<>>
  /\ \E others \in {<<>>, <<NewEnrollment("u2", "c1", 1, 732, 366)>>} :
       \/ enrollments = others
       \/ \E st \in EnrollmentStatuses :
            enrollments = others \o
              <<[NewEnrollment("u1", "c1", 2, 366, 0) EXCEPT !.status = st]>>
  /\ orders = 0
  /\ now \in GateInstants
  /\ req = [r \in Slots |-> IdleReq]
  /\ retired = {}
  /\ deleting = {}
  /\ gate = NoGate

NextGate ==
  \/ \E u \in GateCallers, c \in GateCourses : CourseAccessRequest(u, c)
  \/ \E u \in GateCallers, c \in GateCourses, si \in 0..1, ti \in 0..2 :
       TopicAccessRequest(u, c, si, ti)
  \/ \E u \in GateCallers, c \in GateCourses : EnrollmentStatusRequest(u, c)
  \/ \E u \in GateCallers, c \in GateCourses : EnrollRequest(u, c)
  \/ \E u \in GateCallers : RegistrationFeeRequest(u)

SpecGate == InitGate /\ [][NextGate]_vars

(***************************************************************************)
(* Course purchases while the administrator changes the price.              *)
(***************************************************************************)
Prices == {500, 600}

NextPrice ==
  \/ \E u \in Users, c \in CourseIds : CreateCourseOrder(u, c)
  \/ VerifyPaid("r1")
  \/ VerifySave("r1")
  \/ VerifyFindCourse("r1")
  \/ VerifyInsert("r1")
  \/ VerifyCount("r1")
  \/ VerifyRespond("r1")
  \/ AdminCourses
  \/ \E c \in CourseIds, price \in Prices : AdminUpdateCourse(c, "price", price)

SpecPrice == Init /\ [][NextPrice]_vars

(***************************************************************************)
(* Concurrent course purchases while the administrator sends course         *)
(* updates whose body carries enrollmentCount.                              *)
(***************************************************************************)
Counts == {0, 5}

NextCount ==
  \/ NextRace
  \/ \E c \in CourseIds, n \in Counts : AdminUpdateCourse(c, "enrollmentCount", n)

SpecCount == Init /\ [][NextCount]_vars

(***************************************************************************)
(* Purchases of a published course whose accessDuration and whose day of    *)
(* purchase are drawn: the middle and the last day of months of different   *)
(* lengths.                                                                 *)
(***************************************************************************)
Str1Month == <<"1", " ", "m", "o", "n", "t", "h">>
Str3Months == <<"3", " ", "m", "o", "n", "t", "h", "s">>
Str30Days == <<"3", "0", " ", "d", "a", "y", "s">>
StrLifetime == <<"l", "i", "f", "e", "t", "i", "m", "e">>
ExpiryDurations == {Str1Year, Str1Month, Str3Months, Str30Days, StrLifetime}

\* 15 and 31 January, 29 February, 31 March, 30 November, 31 December 2024
ExpiryInstants == {14, 30, 59, 90, 334, 365}

InitExpiry ==
  /\ users = ("u1" :> UserDoc("student", FALSE)) @@ ("u2" :> UserDoc("beta", TRUE))
               @@ ("u3" :> UserDoc("admin", TRUE))
  /\ \E d \in ExpiryDurations, tree \in SectionTrees :
       courses = ("c1" :> [status |-> "published", price |-> 500, accessDuration |-> d,
                           sections |-> tree, enrollmentCount |-> 0])
  /\ payments = <<>>
  /\ enrollments = <<>>
  /\ orders = 0
  /\ now \in ExpiryInstants
  /\ req = [r \in Slots |-> IdleReq]
  /\ retired = {}
  /\ deleting = {}
  /\ gate = NoGate

NextExpiry ==
  \/ \E u \in Users, c \in CourseIds : CreateCourseOrder(u, c)
  \/ VerifyPaid("r1")
  \/ VerifySave("r1")
  \/ VerifyFindCourse("r1")
  \/ VerifyInsert("r1")
  \/ VerifyCount("r1")
  \/ VerifyRespond("r1")

SpecExpiry == InitExpiry /\ [][NextExpiry]_vars

(***************************************************************************)
(* One year of access: a published course with accessDuration "1 year" is   *)
(* bought on 15 January or 29 February 2024 and read around the two         *)
(* anniversaries.                                                           *)
(***************************************************************************)
YearStarts == {14, 59}
YearInstants == {379, 380, 381, 424, 425, 426}

\* the clock of the requests moves on to a later instant
TickTo(t) ==
  /\ t > now
  /\ now' = t
  /\ UNCHANGED <<users, courses, payments, enrollments, orders, req, retired, deleting, gate>>

InitYear ==
  /\ users = ("u1" :> UserDoc("student", FALSE)) @@ ("u2" :> UserDoc("beta", TRUE))
               @@ ("u3" :> UserDoc("admin", TRUE))
  /\ \E tree \in SectionTrees :
       courses = ("c1" :> [status |-> "published", price |-> 500,
                           accessDuration |-> Str1Year,
                           sections |-> tree, enrollmentCount |-> 0])
  /\ payments = <<>>
  /\ enrollments = <<>>
  /\ orders = 0
  /\ now \in YearStarts
  /\ req = [r \in Slots |-> IdleReq]
  /\ retired = {}
  /\ deleting = {}
  /\ gate = NoGate

NextYear ==
  \/ \E u \in Users, c \in CourseIds : CreateCourseOrder(u, c)
  \/ VerifyPaid("r1")
  \/ VerifySave("r1")
  \/ VerifyFindCourse("r1")
  \/ VerifyInsert("r1")
  \/ VerifyCount("r1")
  \/ VerifyRespond("r1")
  \/ \E t \in YearInstants : TickTo(t)
  \/ \E u \in Users, c \in CourseIds : CourseAccessRequest(u, c)

SpecYear == InitYear /\ [][NextYear]_vars

\* the same requests where no request is withheld for ever: every handler
\* that has started runs on to its answer, and a learner who can send an
\* order request, a verify request or a content request eventually does
SpecRegain ==
  /\ InitYear
  /\ [][NextYear]_vars
  /\ WF_vars(NextYear)
  /\ \A u \in Users, c \in CourseIds : SF_vars(CreateCourseOrder(u, c))
  /\ SF_vars(VerifyPaid("r1"))
  /\ WF_vars(VerifySave("r1"))
  /\ WF_vars(VerifyFindCourse("r1"))
  /\ WF_vars(VerifyInsert("r1"))
  /\ WF_vars(VerifyCount("r1"))
  /\ WF_vars(VerifyRespond("r1"))
  /\ \A u \in Users, c \in CourseIds : WF_vars(CourseAccessRequest(u, c))

(***************************************************************************)
(* The operations that read Enrollments, on the drawn store: the gate       *)
(* requests, the progress route, the two order routes and the clock.        *)
(***************************************************************************)
NextFrame ==
  \/ NextGate
  \/ \E u \in GateCallers, c \in CourseIds, si \in 0..1, ti \in 0..1 :
       RecordProgress(u, c, si, ti)
  \/ \E u \in GateCallers \ {NoUser} : CreateRegistrationOrder(u)
  \/ \E u \in GateCallers \ {NoUser}, c \in CourseIds : CreateCourseOrder(u, c)
  \/ Tick

SpecFrame == InitGate /\ [][NextFrame]_vars

(***************************************************************************)
(* Progress of an enrolled learner while the administrator replaces the     *)
(* section tree of the course: the store after one verified purchase.       *)
(***************************************************************************)
ProgressTrees ==
  {<< <<FALSE>> >>, << <<TRUE, FALSE>> >>, << <<FALSE, FALSE, FALSE>> >>}

InitProgress ==
  /\ users = ("u1" :> UserDoc("student", FALSE)) @@ ("u2" :> UserDoc("beta", TRUE))
               @@ ("u3" :> UserDoc("admin", TRUE))
  /\ \E tree \in ProgressTrees :
       courses = ("c1" :> [status |-> "published", price |-> 500,
                           accessDuration |-> Str1Year,
                           sections |-> tree, enrollmentCount |-> 1])
  /\ payments = <<[NewPayment("u2", "c1", 500, "course", 1) EXCEPT
                     !.status = "completed", !.paymentId = "pay_1",
                     !.signature = Hmac(1, "pay_1")]>>
  /\ enrollments = <<NewEnrollment("u2", "c1", 1, 366, 0)>>
  /\ orders = 1
  /\ now = 0
  /\ req = [r \in Slots |-> IdleReq]
  /\ retired = {}
  /\ deleting = {}
  /\ gate = NoGate

(***************************************************************************)
(* The progress request one await at a time, so that two requests can be    *)
(* in flight: req.enrollment is the document checkTopicAccess loaded, and   *)
(* each save() writes the changes made to that document since it was        *)
(* loaded: a push to an array as $push, an assignment to a path as $set.    *)
(***************************************************************************)
\* checkTopicAccess has loaded the Enrollment into req.enrollment and the
\* handler is about to call updateProgress
ProgressLoad(r, user, courseId, sectionIndex, topicIndex) ==
  LET d == checkTopicAccess(user, courseId, sectionIndex, topicIndex)
  IN /\ req[r].pc = "idle"
     /\ d.outcome = "Admit"
     /\ d.enrollment # 0
     /\ req' = [req EXCEPT ![r] =
          [IdleReq EXCEPT !.pc = "progress", !.caller = user, !.user = user,
                          !.course = courseId, !.section = sectionIndex,
                          !.topic = topicIndex, !.doc = <<enrollments[d.enrollment]>>]]
     /\ UNCHANGED <<users, courses, payments, enrollments, orders, now, retired, deleting, gate>>

\* await enrollment.updateProgress(...): the test and the push on the loaded
\* document, then save(): $push of the pushed entry onto the stored array and
\* $set of lastAccessedTopic
ProgressUpdate(r) ==
  /\ req[r].pc = "progress"
  /\ LET doc == req[r].doc[1]
         upd == updateProgress(doc, req[r].section, req[r].topic, now)
         i == FindEnrollment(enrollments, doc.user, doc.course, EnrollmentStatuses)
     IN IF i = 0
        THEN /\ req' = [req EXCEPT ![r] = [IdleReq EXCEPT !.res = "Error500"]]
             /\ UNCHANGED enrollments
        ELSE /\ enrollments' = [enrollments EXCEPT ![i] =
                  [@ EXCEPT
                     !.completedTopics =
                        IF Len(upd.completedTopics) > Len(doc.completedTopics)
                        THEN Append(@, upd.completedTopics[Len(upd.completedTopics)])
                        ELSE @,
                     !.lastAccessedTopic = upd.lastAccessedTopic]]
             /\ req' = [req EXCEPT ![r].pc = "percentage", ![r].doc = <<upd>>]
  /\ UNCHANGED <<users, courses, payments, orders, now, retired, deleting, gate>>

\* await enrollment.calculateCompletionPercentage(): the percentage of the
\* loaded document's own array, then save(): $set of completionPercentage,
\* rejected by the validator above 100; then the answer
ProgressPercentage(r) ==
  /\ req[r].pc = "percentage"
  /\ LET doc == req[r].doc[1]
         calc == calculateCompletionPercentage(doc)
         i == FindEnrollment(enrollments, doc.user, doc.course, EnrollmentStatuses)
     IN IF doc.course \notin DOMAIN courses
        THEN /\ req' = [req EXCEPT ![r] = [IdleReq EXCEPT !.res = "ProgressOk"]]
             /\ UNCHANGED enrollments
        ELSE IF i = 0 \/ ~PercentageValid(calc)
        THEN /\ req' = [req EXCEPT ![r] = [IdleReq EXCEPT !.res = "Error500"]]
             /\ UNCHANGED enrollments
        ELSE /\ enrollments' = [enrollments EXCEPT ![i].completionPercentage =
                                  calc.completionPercentage]
             /\ req' = [req EXCEPT ![r] = [IdleReq EXCEPT !.res = "ProgressOk"]]
  /\ UNCHANGED <<users, courses, payments, orders, now, retired, deleting, gate>>

\* two progress requests of the learner in flight
NextProgressRace ==
  \/ \E r \in Slots, c \in CourseIds, si \in 0..1, ti \in 0..2 :
       ProgressLoad(r, "u2", c, si, ti)
  \/ \E r \in Slots : ProgressUpdate(r)
  \/ \E r \in Slots : ProgressPercentage(r)

SpecProgressRace == InitProgress /\ [][NextProgressRace]_vars

NextProgress ==
  \/ \E u \in {"u2", "u3"}, c \in CourseIds, si \in 0..1, ti \in 0..2 :
       ProgressRequest(u, c, si, ti)
  \/ \E c \in CourseIds, tree \in ProgressTrees : AdminUpdateCourse(c, "sections", tree)
  \/ Tick

SpecProgress == InitProgress /\ [][NextProgress]_vars

(***************************************************************************)
(* Verify requests of any authenticated caller for any Payment id, with the *)
(* order handle, gateway payment id and signature of any paid order.        *)
(***************************************************************************)
VerifyAny(r) ==
  \E caller \in Users, p \in 1..MaxPayments, o \in 1..orders, g \in GatewayPaymentIds :
    VerifyStartBy(caller, r, p, o, Hmac(o, g), g)

NextHandles ==
  \/ \E c \in CourseIds, d \in AccessDurations, tree \in SectionTrees :
       AdminCreateCourse(c, "published", d, tree)
  \/ \E u \in Users : CreateRegistrationOrder(u)
  \/ \E u \in Users, c \in CourseIds : CreateCourseOrder(u, c)
  \/ VerifyAny("r1")
  \/ VerifySave("r1")
  \/ VerifyUpdateUser("r1")
  \/ VerifyFindCourse("r1")
  \/ VerifyInsert("r1")
  \/ VerifyCount("r1")
  \/ VerifyRespond("r1")

SpecHandles == Init /\ [][NextHandles]_vars

\* the same requests with the first user of any role, the registration fee
\* paid or not
InitFee ==
  /\ \E role \in Roles, paid \in BOOLEAN :
       users = ("u1" :> UserDoc(role, paid)) @@ ("u2" :> UserDoc("beta", TRUE))
                 @@ ("u3" :> UserDoc("admin", TRUE))
  /\ courses = <<>>
  /\ payments = <<>>
  /\ enrollments = <<>>
  /\ orders = 0
  /\ now = 0
  /\ req = [r \in Slots |-> IdleReq]
  /\ retired = {}
  /\ deleting = {}
  /\ gate = NoGate

SpecFee == InitFee /\ [][NextHandles]_vars

(***************************************************************************)
(* Payment intents on the drawn store: the two order routes with every      *)
(* answer they give, and the eligibility check of POST /:courseId/enroll.   *)
(***************************************************************************)
IntentCourses == GateCourses \cup {NoCourse}

NextIntent ==
  \/ \E u \in Users : CreateRegistrationOrder(u)
  \/ \E u \in Users \cup {NoUser} : RegistrationOrderRejected(u)
  \/ \E u \in Users : RegistrationOrderGatewayFails(u)
  \/ \E u \in Users, c \in CourseIds : CreateCourseOrder(u, c)
  \/ \E u \in GateCallers, c \in IntentCourses : CourseOrderRejected(u, c)
  \/ \E u \in Users, c \in CourseIds : CourseOrderGatewayFails(u, c)
  \/ \E u \in GateCallers, c \in GateCourses : EnrollRequest(u, c)

SpecIntent == InitGate /\ [][NextIntent]_vars


(***************************************************************************)
(* Properties.                                                             *)
(***************************************************************************)

\* C1: in every reachable state, whatever the interleaving of order creation,
\* verification, progress recording and course administration, the Enrollment
\* collection holds at most one row for each (user, course) pair.
C1_OneEnrollmentPerPair ==
  \A u \in Users, c \in CourseIds :
    Cardinality(RowsOf(enrollments, u, c, EnrollmentStatuses)) <= 1

\* a verification answered 500 by the index: the payment's pair already has a
\* row, the course is there and its duration parses
C1_Witness ==
  \E r \in Slots :
    /\ req[r].pc = "done"
    /\ req[r].res = "Error500"
    /\ req[r].paymentId \in DOMAIN payments
    /\ LET pay == payments[req[r].paymentId]
       IN /\ pay.course \in DOMAIN courses
          /\ ~ExpiryThrows(AccessDurationOf(courses[pay.course]))
          /\ Cardinality(RowsOf(enrollments, pay.user, pay.course, EnrollmentStatuses)) = 1

\* C2: when verify is invoked twice in sequence on a Payment, the first call
\* has set it to completed and has run its side effect once (the owner's
\* registration flag and evidence, or the one Enrollment of this Payment), and
\* the second call, answered AlreadyProcessed, finds exactly that.
C2_SecondVerifyFindsSideEffect ==
  \A r \in Slots :
    (/\ req[r].pc = "done"
     /\ req[r].res = "AlreadyProcessed"
     /\ req[r].paymentId \in DOMAIN payments)
    => LET pay == payments[req[r].paymentId]
       IN /\ pay.status = "completed"
          /\ IF pay.paymentType = "registration"
             THEN /\ users[pay.user].hasPaidRegistrationFee
                  /\ users[pay.user].registrationFeePayment = req[r].paymentId
             ELSE Cardinality({i \in DOMAIN enrollments :
                                 enrollments[i].payment = req[r].paymentId}) = 1

C4_CompletedHasSideEffect ==
  (\A r \in Slots : req[r].pc \in {"idle", "done"})
  => \A p \in DOMAIN payments :
       payments[p].status = "completed"
       => IF payments[p].paymentType = "registration"
          THEN users[payments[p].user].hasPaidRegistrationFee
          ELSE RowsOf(enrollments, payments[p].user, payments[p].course,
                      EnrollmentStatuses) # {}

\* C5: a verification that passed the checks on a pending registration
\* Payment has, when it answers, set the owner's registration flag and
\* recorded the Payment as evidence, and neither the enrollment eligibility
\* check nor a course order of that user is denied RegistrationFeeRequired.
C5_RegistrationClearsGate ==
  \A r \in Slots :
    (/\ req[r].pc = "done"
     /\ req[r].res \in {"RegistrationOk", "Error500"}
     /\ req[r].paymentId \in DOMAIN payments
     /\ payments[req[r].paymentId].paymentType = "registration")
    => LET u == payments[req[r].paymentId].user
       IN /\ users[u].hasPaidRegistrationFee
          /\ users[u].registrationFeePayment = req[r].paymentId
          /\ \A c \in CourseIds :
               /\ checkEnrollmentEligibility(u, c).outcome # "RegistrationFeeRequired"
               /\ CourseOrderOutcome(u, c) # "RegistrationFeeRequired"

\* C6: a verify request that supplies every field and whose signature is not
\* the keyed hash of (orderId, razorpay_payment_id) is answered
\* SignatureMismatch whatever its paymentId, in the store or not, and leaves
\* payments, enrollments, users and courses as they were.
C6_SignatureMismatch ==
  [][\A r \in Slots :
       (req[r].pc = "idle" /\ req'[r].pc # "idle")
       => \A p \in 1..MaxPayments, o \in 1..orders,
             sig \in KnownSignatures \ {<<>>}, g \in GatewayPaymentIds :
            (/\ sig # Hmac(o, g)
             /\ \/ VerifyStart(r, p, o, sig, g)
                \/ VerifyReject(r, p, o, sig, g))
            => /\ req'[r].pc = "done"
               /\ req'[r].res = "SignatureMismatch"
               /\ UNCHANGED <<payments, enrollments, users, courses>>]_vars

\* a forged signature was rejected on a payment that is in the store, pending
C6_Witness ==
  \E r \in Slots :
    /\ req[r].pc = "done"
    /\ req[r].res = "SignatureMismatch"
    /\ req[r].paymentId \in DOMAIN payments
    /\ payments[req[r].paymentId].status = "pending"

\* C7: every change of a Payment's status is pending -> completed,
\* pending -> failed or completed -> refunded; no step completes a Payment
\* that is not pending and none returns one to pending.
C7_StatusTransitions ==
  [][\A p \in DOMAIN payments :
       (p \in DOMAIN payments' /\ payments'[p].status # payments[p].status)
       => <<payments[p].status, payments'[p].status>> \in
            {<<"pending", "completed">>, <<"pending", "failed">>,
             <<"completed", "refunded">>}]_vars

\* C8: for an authenticated user and a published course, courseAccess answers
\* Expired whenever the user's Enrollment is stored as active and now is
\* later than its expiresAt.
C8_ExpiredAtReadTime ==
  (/\ gate.op = "courseAccess"
   /\ gate.user # NoUser
   /\ gate.course \in DOMAIN courses
   /\ courses[gate.course].status = "published"
   /\ \E i \in DOMAIN enrollments :
        /\ enrollments[i].user = gate.user
        /\ enrollments[i].course = gate.course
        /\ enrollments[i].status = "active"
        /\ now > enrollments[i].expiresAt)
  => gate.decision.outcome = "Expired"

\* courseAccess answered Expired on a row that is still stored as active
C8_Witness ==
  /\ gate.op = "courseAccess"
  /\ gate.decision.outcome = "Expired"
  /\ \E i \in DOMAIN enrollments :
       /\ enrollments[i].user = gate.user
       /\ enrollments[i].course = gate.course
       /\ enrollments[i].status = "active"
       /\ enrollments[i].expiresAt = 366
  /\ now = 367

\* C9 as stated: topicAccess admits for every topic that resolves and is
\* free, whatever the caller's Enrollment, also for an unauthenticated caller.
C9_FreeTopicAsStated ==
  (/\ gate.op = "topicAccess"
   /\ TopicResolves(gate.course, gate.section, gate.topic)
   /\ courses[gate.course].sections[gate.section + 1][gate.topic + 1])
  => gate.decision.outcome = "Admit"

\* C9, amended: topicAccess admits an authenticated caller for every topic
\* that resolves and is free, whatever the caller's Enrollment (none, active,
\* expired by date, or stored as expired, cancelled or suspended), and
\* whatever the course's status; an unauthenticated caller is answered
\* Unauthenticated.
C9_FreeTopicAmended ==
  (/\ gate.op = "topicAccess"
   /\ TopicResolves(gate.course, gate.section, gate.topic)
   /\ courses[gate.course].sections[gate.section + 1][gate.topic + 1])
  => gate.decision.outcome = IF gate.user = NoUser THEN "Unauthenticated" ELSE "Admit"

\* a free topic was admitted to a caller whose only row is not an active,
\* unexpired one
C9_Witness ==
  /\ gate.op = "topicAccess"
  /\ gate.user # NoUser
  /\ gate.decision.outcome = "Admit"
  /\ TopicResolves(gate.course, gate.section, gate.topic)
  /\ courses[gate.course].sections[gate.section + 1][gate.topic + 1]
  /\ \E i \in DOMAIN enrollments :
       /\ enrollments[i].user = gate.user
       /\ enrollments[i].course = gate.course
       /\ enrollments[i].status = "suspended"

\* C10: enrollmentEligibility answers RegistrationFeeRequired with amount 699
\* to every student whose registration flag is false, and never answers
\* RegistrationFeeRequired to an admin or beta user whose flag is false.
C10_FeeGateByRole ==
  (/\ gate.op = "enrollmentEligibility"
   /\ gate.user # NoUser
   /\ ~users[gate.user].hasPaidRegistrationFee)
  => IF users[gate.user].role = "student"
     THEN /\ gate.decision.outcome = "RegistrationFeeRequired"
          /\ gate.decision.amount = 699
     ELSE gate.decision.outcome # "RegistrationFeeRequired"

\* a student who has not paid was denied with the fee
C10_Witness ==
  /\ gate.op = "enrollmentEligibility"
  /\ gate.user # NoUser
  /\ users[gate.user].role = "student"
  /\ ~users[gate.user].hasPaidRegistrationFee
  /\ gate.decision.outcome = "RegistrationFeeRequired"
  /\ gate.decision.amount = 699

\* C11: courseAccess answers the first outcome that applies, in this order:
\* Unauthenticated without a user, NotFound without the course, NotPublished
\* for a course that is not published, NotEnrolled without a row stored as
\* active (a row stored as expired, cancelled or suspended counts as none),
\* Expired when now is later than expiresAt, and otherwise Admit with that
\* row exposed to the caller.
C11_CourseAccessOrder ==
  gate.op = "courseAccess"
  => LET rows == {i \in DOMAIN enrollments :
                    /\ enrollments[i].user = gate.user
                    /\ enrollments[i].course = gate.course
                    /\ enrollments[i].status = "active"}
     IN /\ gate.decision.outcome =
             IF gate.user = NoUser THEN "Unauthenticated"
             ELSE IF gate.course \notin DOMAIN courses THEN "NotFound"
             ELSE IF courses[gate.course].status # "published" THEN "NotPublished"
             ELSE IF rows = {} THEN "NotEnrolled"
             ELSE IF \E i \in rows : now > enrollments[i].expiresAt THEN "Expired"
             ELSE "Admit"
        /\ gate.decision.outcome = "Admit" => gate.decision.enrollment \in rows

\* a published course and a row stored as expired: answered NotEnrolled
C11_Witness ==
  /\ gate.op = "courseAccess"
  /\ gate.decision.outcome = "NotEnrolled"
  /\ gate.course \in DOMAIN courses
  /\ \E i \in DOMAIN enrollments :
       /\ enrollments[i].user = gate.user
       /\ enrollments[i].course = gate.course
       /\ enrollments[i].status = "expired"

\* C12: for an authenticated user and a topic that resolves and is not free,
\* topicAccess answers what courseAccess answers for that user and course in
\* the same state.
C12_TopicAccessAsCourseAccess ==
  (/\ gate.op = "topicAccess"
   /\ gate.user # NoUser
   /\ TopicResolves(gate.course, gate.section, gate.topic)
   /\ ~courses[gate.course].sections[gate.section + 1][gate.topic + 1])
  => gate.decision.outcome = checkCourseAccess(gate.user, gate.course).outcome

\* C13 as stated: createIntent(course) and enrollmentEligibility each answer
\* AlreadyEnrolled exactly when a row for (user, course) is stored as active
\* or expired.
C13_AlreadyEnrolledAsStated ==
  gate.op \in {"enrollmentEligibility", "createCourseOrder"}
  => (gate.decision.outcome = "AlreadyEnrolled"
      <=> RowsOf(enrollments, gate.user, gate.course, {"active", "expired"}) # {})

\* C13, amended: each of the two answers AlreadyEnrolled exactly when a row
\* for (user, course) is stored as active or expired and none of its earlier
\* checks answers first: for enrollmentEligibility the caller is
\* authenticated and is not a student with the flag false; for
\* createIntent(course) the caller is authenticated, is admin or beta or has
\* the flag true, and the course exists and is published.  A row stored as
\* cancelled or suspended, or no row, never yields AlreadyEnrolled, and a
\* course Payment is created only for a pair without an active or expired row.
C13_AlreadyEnrolledAmended ==
  LET enrolled == RowsOf(enrollments, gate.user, gate.course, {"active", "expired"}) # {}
      passesFee == /\ gate.user # NoUser
                   /\ \/ users[gate.user].role \in {"admin", "beta"}
                      \/ users[gate.user].hasPaidRegistrationFee
  IN /\ gate.op = "enrollmentEligibility"
        => (gate.decision.outcome = "AlreadyEnrolled"
            <=> /\ gate.user # NoUser
                /\ ~(users[gate.user].role = "student"
                     /\ ~users[gate.user].hasPaidRegistrationFee)
                /\ enrolled)
     /\ gate.op = "createCourseOrder"
        => (gate.decision.outcome = "AlreadyEnrolled"
            <=> /\ passesFee
                /\ gate.course \in DOMAIN courses
                /\ courses[gate.course].status = "published"
                /\ enrolled)
     /\ \A p \in DOMAIN payments :
          payments[p].paymentType = "course"
          => RowsOf(enrollments, payments[p].user, payments[p].course,
                    {"active", "expired"}) = {}

\* a course order refused for a row stored as expired
C13_Witness ==
  /\ gate.op = "createCourseOrder"
  /\ gate.decision.outcome = "AlreadyEnrolled"
  /\ \E i \in DOMAIN enrollments :
       /\ enrollments[i].user = gate.user
       /\ enrollments[i].course = gate.course
       /\ enrollments[i].status = "expired"

\* C14: for a caller that passes the registration gate and names a course,
\* createIntent(course) answers NotFound when the course does not exist and
\* NotPublished when its status is not published; a request that is denied
\* (no courseId, NotFound, NotPublished, AlreadyEnrolled,
\* RegistrationFeeRequired) requests no order and creates no Payment: every
\* order backs a Payment, and a course Payment exists only for a caller that
\* passes the gate, a published course and a pair not yet enrolled.
C14_CourseIntentDenials ==
  /\ (/\ gate.op = "createCourseOrder"
      /\ gate.user # NoUser
      /\ \/ users[gate.user].role \in {"admin", "beta"}
         \/ users[gate.user].hasPaidRegistrationFee
      /\ gate.course # NoCourse)
     => /\ gate.course \notin DOMAIN courses => gate.decision.outcome = "NotFound"
        /\ (gate.course \in DOMAIN courses /\ courses[gate.course].status # "published")
           => gate.decision.outcome = "NotPublished"
  /\ orders = Cardinality(DOMAIN payments)
  /\ \A p \in DOMAIN payments :
       payments[p].paymentType = "course"
       => /\ \/ users[payments[p].user].role \in {"admin", "beta"}
             \/ users[payments[p].user].hasPaidRegistrationFee
          /\ payments[p].course \in DOMAIN courses
          /\ courses[payments[p].course].status = "published"
          /\ RowsOf(enrollments, payments[p].user, payments[p].course,
                    {"active", "expired"}) = {}

\* a course order refused for a course that is not published, no order issued
C14_Witness ==
  /\ gate.op = "createCourseOrder"
  /\ gate.decision.outcome = "NotPublished"
  /\ gate.course \in DOMAIN courses
  /\ courses[gate.course].status = "archived"
  /\ orders = 0
  /\ payments = <<>>

\* C15: createIntent(registration) answers AlreadySatisfied whenever the
\* caller's flag is true, and no registration Payment is created for such a
\* caller; a registration Payment has no course and the amount 699.
C15_RegistrationIntent ==
  /\ (/\ gate.op = "createRegistrationOrder"
      /\ gate.user # NoUser
      /\ users[gate.user].hasPaidRegistrationFee)
     => gate.decision.outcome = "AlreadySatisfied"
  /\ \A p \in DOMAIN payments :
       payments[p].paymentType = "registration"
       => /\ ~users[payments[p].user].hasPaidRegistrationFee
          /\ payments[p].course = NoCourse
          /\ payments[p].amount = 699

\* a registration Payment of a caller with the flag false, and a caller with
\* the flag true answered AlreadySatisfied
C15_Witness ==
  /\ gate.op = "createRegistrationOrder"
  /\ gate.decision.outcome = "AlreadySatisfied"
  /\ \E p \in DOMAIN payments :
       /\ payments[p].paymentType = "registration"
       /\ payments[p].amount = 699
       /\ payments[p].course = NoCourse

\* C16: a step that obtains an order from the gateway persists exactly one
\* new Payment, pending, whose stored order handle is that order, and leaves
\* the other Payments as they were; a request whose gateway call fails
\* persists none, and no Payment appears without an order.
C16_IntentPersistsOnePending ==
  [][/\ orders' # orders
        => /\ orders' = orders + 1
           /\ \E p \in DOMAIN payments' \ DOMAIN payments :
                /\ DOMAIN payments' = DOMAIN payments \cup {p}
                /\ payments'[p].status = "pending"
                /\ payments'[p].orderId = orders'
           /\ \A q \in DOMAIN payments : payments'[q] = payments[q]
     /\ (gate' # gate /\ gate'.decision.outcome = "Error500")
        => UNCHANGED <<payments, orders>>
     /\ payments' # payments => orders' # orders]_vars

\* two orders issued, each carried by its pending Payment, and a request the
\* gateway failed
C16_Witness ==
  /\ orders = 2
  /\ \A p \in DOMAIN payments : payments[p].status = "pending" /\ payments[p].orderId = p
  /\ Cardinality(DOMAIN payments) = 2
  /\ gate.decision.outcome = "Error500"

\* C17: a course Payment is created with the price the course has at that
\* step, and no later step changes a Payment's amount, neither a change of
\* the course price nor a verify; a verify of the Payment goes through
\* whatever the price has become: it fails only where the course is gone,
\* its duration does not parse or the index rejects the row.
C17_AmountCapturedAtCreation ==
  [][/\ \A p \in DOMAIN payments' \ DOMAIN payments :
          payments'[p].paymentType = "course"
          => payments'[p].amount = courses[payments'[p].course].price
     /\ \A p \in DOMAIN payments \cap DOMAIN payments' :
          payments'[p].amount = payments[p].amount
     /\ \A r \in Slots :
          /\ (req[r].pc = "course" /\ req'[r].pc = "done")
             => \/ req[r].course \notin DOMAIN courses
                \/ ExpiryThrows(AccessDurationOf(courses[req[r].course]))
          /\ (req[r].pc = "insert" /\ req'[r].pc = "done")
             => \E i \in DOMAIN enrollments :
                  /\ enrollments[i].user = req[r].user
                  /\ enrollments[i].course = req[r].course]_vars

\* a verify answered with the enrollment for a Payment whose amount is no
\* longer the price of the course
C17_Witness ==
  \E r \in Slots :
    /\ req[r].pc = "done"
    /\ req[r].res = "CourseOk"
    /\ req[r].paymentId \in DOMAIN payments
    /\ payments[req[r].paymentId].course \in DOMAIN courses
    /\ payments[req[r].paymentId].status = "completed"
    /\ payments[req[r].paymentId].amount = 500
    /\ courses[payments[req[r].paymentId].course].price = 600

\* C18: when the enrollment of a verified course Payment is saved and the
\* pair already has a row that is expired (now > expiresAt, or stored as
\* expired) or cancelled, that row is renewed in place: no row is added, the
\* row is active, references the new Payment, carries the new enrolledAt
\* and expiresAt, and keeps its progress.
C18_RenewsInPlace ==
  [][\A r \in Slots :
       (req[r].pc = "insert" /\ req'[r].pc # "insert")
       => \A i \in DOMAIN enrollments :
            ( /\ enrollments[i].user = req[r].user
              /\ enrollments[i].course = req[r].course
              /\ \/ enrollments[i].status \in {"expired", "cancelled"}
                 \/ now > enrollments[i].expiresAt )
            => /\ Len(enrollments') = Len(enrollments)
               /\ enrollments'[i].status = "active"
               /\ enrollments'[i].payment = req[r].paymentId
               /\ enrollments'[i].enrolledAt = req[r].enrolledAt
               /\ enrollments'[i].expiresAt = req[r].expiresAt
               /\ enrollments'[i].completedTopics = enrollments[i].completedTopics
               /\ enrollments'[i].completionPercentage
                    = enrollments[i].completionPercentage]_vars

\* C19: a verify of a course Payment whose pair already has an active row
\* fails: its steps up to the enrollment save change no Enrollment and no
\* Course (so the row's expiresAt, enrolledAt and payment reference and the
\* course's enrollmentCount stay as they are), and the save ends the request
\* with the error answer.
C19_ActiveRowUntouched ==
  [][\A r \in Slots :
       ( /\ req[r].pc \in {"save", "course", "insert"}
         /\ req'[r] # req[r]
         /\ req[r].paymentType = "course"
         /\ RowsOf(enrollments, req[r].user, req[r].course, {"active"}) # {} )
       => /\ enrollments' = enrollments
          /\ courses' = courses
          /\ req[r].pc = "insert"
             => req'[r].pc = "done" /\ req'[r].res = "Error500"]_vars

\* a verify that ended with the error answer while another Payment's active
\* row for the same pair is in the collection, the counter still at one
C19_Witness ==
  \E r \in Slots :
    /\ req[r].pc = "done"
    /\ req[r].res = "Error500"
    /\ req[r].paymentId \in DOMAIN payments
    /\ payments[req[r].paymentId].paymentType = "course"
    /\ payments[req[r].paymentId].course \in DOMAIN courses
    /\ courses[payments[req[r].paymentId].course].enrollmentCount = 1
    /\ \E i \in DOMAIN enrollments :
         /\ enrollments[i].user = payments[req[r].paymentId].user
         /\ enrollments[i].course = payments[req[r].paymentId].course
         /\ enrollments[i].status = "active"
         /\ enrollments[i].payment # req[r].paymentId

\* C20: whenever no verify is between its first and its last step, the
\* enrollmentCount of every course equals the number of Enrollment rows
\* inserted for it (rows are only ever inserted, once per pair, and leave
\* the collection only together with their course).
C20_CountIsInsertions ==
  (\A r \in Slots : req[r].pc \in {"idle", "done"})
  => \A c \in DOMAIN courses :
       courses[c].enrollmentCount
         = Cardinality({i \in DOMAIN enrollments : enrollments[i].course = c})

\* C21: the expiresAt of every Enrollment is its enrolledAt moved by the
\* course's policy in calendar arithmetic: for N years or N months the same
\* day of the month in the target month, or the last day of that month when
\* it is shorter; for N days, enrolledAt plus N days.
C21_CalendarArithmetic ==
  \A i \in DOMAIN enrollments :
    enrollments[i].course \in DOMAIN courses
    => LET e == enrollments[i].enrolledAt
           d == AccessDurationOf(courses[enrollments[i].course])
           n == ParseInt(MatchDigits(d))
           tm == IF Includes(d, StrYear) THEN GetMonth(e) + 12 * n
                 ELSE GetMonth(e) + n
           ty == GetFullYear(e) + ((tm - 1) \div 12)
           mm == ((tm - 1) % 12) + 1
           last == DaysInMonth(ty, mm)
           day == IF GetDate(e) <= last THEN GetDate(e) ELSE last
       IN enrollments[i].expiresAt
            = IF Includes(d, StrYear) \/ Includes(d, StrMonth)
              THEN MakeDay(ty, mm, day)
              ELSE e + n

\* C22: on a published course with accessDuration "1 year", every
\* Enrollment created by a verified purchase expires on the day one calendar
\* year after its enrolledAt (the same day of the same month of the next
\* year, or the last day of that month), and courseAccess admits its user on
\* every day before that day and answers Expired on every day after it.
C22_OneYearOfAccess ==
  [][/\ \A i \in DOMAIN enrollments' :
          LET e == enrollments'[i].enrolledAt
              last == DaysInMonth(GetFullYear(e) + 1, GetMonth(e))
          IN enrollments'[i].expiresAt
               = MakeDay(GetFullYear(e) + 1, GetMonth(e),
                         IF GetDate(e) <= last THEN GetDate(e) ELSE last)
     /\ (gate' # gate /\ gate'.op = "courseAccess")
        => \A i \in DOMAIN enrollments :
             (enrollments[i].user = gate'.user /\ enrollments[i].course = gate'.course)
             => LET e == enrollments[i].enrolledAt
                    last == DaysInMonth(GetFullYear(e) + 1, GetMonth(e))
                    end == MakeDay(GetFullYear(e) + 1, GetMonth(e),
                                   IF GetDate(e) <= last THEN GetDate(e) ELSE last)
                IN /\ now < end => gate'.decision.outcome = "Admit"
                   /\ now > end => gate'.decision.outcome = "Expired"]_vars

\* C23: when the enrollment save of a verify meets a row already stored for
\* the same (user, course), the request does not end with the error answer:
\* it goes on to answer with the enrollment.
C23_DuplicateNotAFailure ==
  [][\A r \in Slots :
       ( /\ req[r].pc = "insert"
         /\ req'[r].pc # "insert"
         /\ DuplicateKey(enrollments, [user |-> req[r].user, course |-> req[r].course]) )
       => req'[r].res # "Error500"]_vars

\* C24: in every state in which courseAccess, or topicAccess on a topic
\* that is not free, admits a user, the Payment referenced by the Enrollment
\* it admits on has neither status failed nor status cancelled.
C24_NoAdmitOnFailedPayment ==
  \A u \in Users, c \in CourseIds :
    /\ LET d == checkCourseAccess(u, c)
       IN (d.outcome = "Admit" /\ enrollments[d.enrollment].payment \in DOMAIN payments)
          => payments[enrollments[d.enrollment].payment].status
               \notin {"failed", "cancelled"}
    /\ \A si \in 0..1, ti \in 0..1 :
         LET d == checkTopicAccess(u, c, si, ti)
         IN (d.outcome = "Admit" /\ d.enrollment # 0
             /\ enrollments[d.enrollment].payment \in DOMAIN payments)
            => payments[enrollments[d.enrollment].payment].status
                 \notin {"failed", "cancelled"}

\* C25: every step that adds an Enrollment is the enrollment save of a
\* verify request, and at that step the row's payment reference is a stored
\* Payment of type course and status completed for the row's user and
\* course; no other step adds a row.
C25_InsertedByVerifyOnly ==
  [][\A i \in DOMAIN enrollments' :
       (i \notin DOMAIN enrollments)
       => /\ \E r \in Slots :
               /\ req[r].pc = "insert" /\ req'[r].pc = "count"
               /\ req[r].paymentId = enrollments'[i].payment
          /\ enrollments'[i].payment \in DOMAIN payments'
          /\ payments'[enrollments'[i].payment].paymentType = "course"
          /\ payments'[enrollments'[i].payment].status = "completed"
          /\ payments'[enrollments'[i].payment].user = enrollments'[i].user
          /\ payments'[enrollments'[i].payment].course = enrollments'[i].course]_vars

\* C26: no gate request, progress request or order request, and no passage
\* of time, changes the expiresAt or the stored status of an Enrollment.
C26_ExpiryAndStatusFrozen ==
  [][\A i \in DOMAIN enrollments \cap DOMAIN enrollments' :
       /\ enrollments'[i].expiresAt = enrollments[i].expiresAt
       /\ enrollments'[i].status = enrollments[i].status]_vars

\* an Enrollment with recorded progress whose expiresAt has passed, still
\* stored as active, and refused as Expired by courseAccess
C26_Witness ==
  \E i \in DOMAIN enrollments :
    /\ enrollments[i].completedTopics # <<>>
    /\ enrollments[i].status = "active"
    /\ now > enrollments[i].expiresAt
    /\ gate.op = "courseAccess"
    /\ gate.user = enrollments[i].user
    /\ gate.decision.outcome = "Expired"
    /\ payments # <<>>

\* C27: a courseAccess, topicAccess, enrollment-status or eligibility
\* request, whatever it decides, leaves the User, Course, Payment and
\* Enrollment collections as they were.
C27_GateReadsOnly ==
  [][(gate' # gate /\ gate'.op \in {"courseAccess", "topicAccess", "enrollmentStatus",
                                    "enrollmentEligibility"})
     => UNCHANGED <<users, courses, payments, enrollments>>]_vars

\* a topicAccess request refused as Expired on a store that holds Payments
\* and the Enrollment it was refused on
C27_Witness ==
  /\ gate.op = "topicAccess"
  /\ gate.decision.outcome = "Expired"
  /\ payments # <<>>
  /\ \E i \in DOMAIN enrollments :
       /\ enrollments[i].user = gate.user
       /\ enrollments[i].course = gate.course
       /\ enrollments[i].status = "active"

\* C28: a progress request for a pair that is already in the Enrollment's
\* completedTopics leaves completedTopics as it is (pairs and completedAt)
\* and sets lastAccessedTopic to the pair; a request for any pair leaves the
\* pairs recorded so far in place, adds the pair at most once, and no pair is
\* ever recorded twice, so repeating a request gives the set of one request.
C28_ProgressIdempotent ==
  [][(/\ courses' = courses /\ now' = now
      /\ gate'.op = "recordProgress"
      /\ gate'.decision.outcome \in {"ProgressOk", "Error500"})
     => LET i == gate'.decision.enrollment
            Pairs(e) == {<<e.completedTopics[k].sectionIndex,
                           e.completedTopics[k].topicIndex>> :
                            k \in DOMAIN e.completedTopics}
            pair == <<gate'.section, gate'.topic>>
        IN /\ pair \in Pairs(enrollments[i])
              => enrollments'[i].completedTopics = enrollments[i].completedTopics
           /\ enrollments'[i].lastAccessedTopic
                = <<[sectionIndex |-> gate'.section, topicIndex |-> gate'.topic,
                     lastAccessedAt |-> now]>>
           /\ Pairs(enrollments'[i]) = Pairs(enrollments[i]) \cup {pair}
           /\ Cardinality(Pairs(enrollments'[i])) = Len(enrollments'[i].completedTopics)]_vars

\* a pair completed before another one has been recorded again: it is the
\* last accessed topic and still the first of two completed topics
C28_Witness ==
  \E i \in DOMAIN enrollments :
    /\ gate.op = "recordProgress"
    /\ gate.decision.outcome = "ProgressOk"
    /\ gate.decision.enrollment = i
    /\ Len(enrollments[i].completedTopics) = 2
    /\ enrollments[i].completedTopics[1].sectionIndex = gate.section
    /\ enrollments[i].completedTopics[1].topicIndex = gate.topic
    /\ enrollments[i].lastAccessedTopic # <<>>
    /\ enrollments[i].lastAccessedTopic[1].topicIndex = gate.topic

\* C29: after a progress request answered with the progress, the stored
\* completionPercentage is 100 * completed / total rounded to the nearest
\* whole number (halves upwards), completed being the number of entries of
\* completedTopics after the request and total the number of topics of the
\* course's tree at that step; it is 0 when the tree has no topic.
C29_PercentageIsRounded ==
  [][(/\ courses' = courses /\ now' = now
      /\ gate'.op = "recordProgress"
      /\ gate'.decision.outcome = "ProgressOk")
     => LET e == enrollments'[gate'.decision.enrollment]
            done == Len(e.completedTopics)
            total == SumLen(courses[e.course].sections)
        IN IF total = 0 THEN e.completionPercentage = 0
           ELSE /\ 2 * total * e.completionPercentage <= 200 * done + total
                /\ 200 * done + total < 2 * total * (e.completionPercentage + 1)]_vars

\* two of three topics completed: 67 per cent stored
C29_Witness ==
  \E i \in DOMAIN enrollments :
    /\ gate.op = "recordProgress"
    /\ gate.decision.outcome = "ProgressOk"
    /\ gate.decision.enrollment = i
    /\ Len(enrollments[i].completedTopics) = 2
    /\ enrollments[i].course \in DOMAIN courses
    /\ SumLen(courses[enrollments[i].course].sections) = 3
    /\ enrollments[i].completionPercentage = 67

\* C30: every Enrollment's completionPercentage is between 0 and 100, and
\* no progress request that the gate passed on with the learner's
\* Enrollment is answered with an error, whatever tree the administrator
\* has put in place since the topics were completed.
C30_PercentageInRangeAndProgressSucceeds ==
  /\ \A i \in DOMAIN enrollments :
       enrollments[i].completionPercentage \in 0..100
  /\ gate.op = "recordProgress" => gate.decision.outcome # "Error500"

\* C31: whenever a verify request saves a Payment as completed, the order
\* handle under the signature it verified is the order handle stored on
\* that Payment.
C31_OrderHandleBound ==
  [][\A r \in Slots :
       ( /\ req[r].pc = "save"
         /\ req[r].paymentId \in DOMAIN payments
         /\ req[r].paymentId \in DOMAIN payments'
         /\ payments'[req[r].paymentId].status = "completed" )
       => req[r].signature
            = Hmac(payments[req[r].paymentId].orderId, req[r].gatewayPaymentId)]_vars

\* C32: whenever a verify request saves a Payment as completed, sets a
\* registration flag or inserts an Enrollment, the Payment it works on
\* belongs to the caller of the request.
C32_OwnPaymentsOnly ==
  [][\A r \in Slots :
       ( /\ req[r].pc \in {"save", "user", "insert"}
         /\ req'[r] # req[r]
         /\ \/ payments' # payments
            \/ users' # users
            \/ enrollments' # enrollments )
       => req[r].caller = req[r].user]_vars

\* C33: while an Enrollment exists for a (user, course) pair, at most one
\* course Payment of that pair has status completed.
C33_OneCompletedPaymentPerPair ==
  \A i \in DOMAIN enrollments :
    Cardinality({p \in DOMAIN payments :
                   /\ payments[p].paymentType = "course"
                   /\ payments[p].user = enrollments[i].user
                   /\ payments[p].course = enrollments[i].course
                   /\ payments[p].status = "completed"}) <= 1

\* C34: every Enrollment has an expiresAt later than its enrolledAt,
\* whatever accessDuration its course holds.
C34_ExpiresAfterEnrolled ==
  \A i \in DOMAIN enrollments : enrollments[i].expiresAt > enrollments[i].enrolledAt

\* C35: a user whose Enrollment on a published course has lapsed (stored
\* as active, now > expiresAt) gets to a state in which courseAccess admits
\* them again, given that their order and verify requests keep being sent
\* and served.
C35_LapsedRegainsAccess ==
  \A u \in Users, c \in CourseIds :
    (\E i \in DOMAIN enrollments :
       /\ enrollments[i].user = u /\ enrollments[i].course = c
       /\ enrollments[i].status = "active"
       /\ now > enrollments[i].expiresAt
       /\ c \in DOMAIN courses /\ courses[c].status = "published")
    ~> (checkCourseAccess(u, c).outcome = "Admit")

\* C36: a progress request of a user who holds an active Enrollment that
\* has not expired, for a topic of the course that resolves, free or not,
\* leaves the pair in the Enrollment's completedTopics and as its
\* lastAccessedTopic.
C36_ProgressOnEveryTopic ==
  [][(/\ courses' = courses /\ now' = now
      /\ gate'.op = "recordProgress"
      /\ TopicResolves(gate'.course, gate'.section, gate'.topic))
     => \A i \in RowsOf(enrollments, gate'.user, gate'.course, {"active"}) :
          now <= enrollments[i].expiresAt
          => /\ \E k \in DOMAIN enrollments'[i].completedTopics :
                  /\ enrollments'[i].completedTopics[k].sectionIndex = gate'.section
                  /\ enrollments'[i].completedTopics[k].topicIndex = gate'.topic
             /\ enrollments'[i].lastAccessedTopic # <<>>
             /\ enrollments'[i].lastAccessedTopic[1].sectionIndex = gate'.section
             /\ enrollments'[i].lastAccessedTopic[1].topicIndex = gate'.topic]_vars

\* C37: for an authenticated user and a published course, the course access
\* middleware admits exactly when the user's Enrollment for the course
\* answers isActive() with true, the instant now = expiresAt included.
C37_AccessAgreesWithIsActive ==
  (/\ gate.op = "courseAccess"
   /\ gate.user # NoUser
   /\ gate.course \in DOMAIN courses
   /\ courses[gate.course].status = "published")
  => (gate.decision.outcome = "Admit"
        <=> \E i \in RowsOf(enrollments, gate.user, gate.course, EnrollmentStatuses) :
              isActive(enrollments[i]))

\* C38: once a course deletion and every verify in flight have finished, no
\* Enrollment and no completed Payment refers to a course that no longer
\* exists.
C38_NoOrphansAfterDeletion ==
  (deleting = {} /\ \A r \in Slots : req[r].pc = "idle")
  => /\ \A i \in DOMAIN enrollments : enrollments[i].course \in DOMAIN courses
     /\ \A p \in DOMAIN payments :
          (payments[p].paymentType = "course" /\ payments[p].status = "completed")
          => payments[p].course \in DOMAIN courses

\* C39: every course Payment is created for a user who at that moment has
\* role admin or beta or has the registration-fee flag set, and every
\* Enrollment is created for the user of a course Payment; so no Enrollment
\* is created for a student whose flag was false when the Payment was made.
C39_EnrollmentsOfFeePayersOnly ==
  [][/\ \A p \in DOMAIN payments' \ DOMAIN payments :
          payments'[p].paymentType = "course"
          => \/ users[payments'[p].user].role \in {"admin", "beta"}
             \/ users[payments'[p].user].hasPaidRegistrationFee
     /\ \A i \in DOMAIN enrollments' \ DOMAIN enrollments :
          /\ enrollments'[i].payment \in DOMAIN payments
          /\ payments[enrollments'[i].payment].paymentType = "course"
          /\ payments[enrollments'[i].payment].user = enrollments'[i].user]_vars

C39_Witness ==
  \E i \in DOMAIN enrollments :
    /\ enrollments[i].user = "u1"
    /\ users["u1"].role = "student"
    /\ users["u1"].hasPaidRegistrationFee
    /\ enrollments[i].payment \in DOMAIN payments
    /\ payments[enrollments[i].payment].paymentType = "course"

\* C40: once the progress requests in flight have finished, no
\* (sectionIndex, topicIndex) pair is in an Enrollment's completedTopics more
\* than once, so the percentage computed from the array counts each pair once.
C40_PairOnceAfterConcurrentProgress ==
  (\A r \in Slots : req[r].pc = "idle")
  => \A i \in DOMAIN enrollments :
       \A j, k \in DOMAIN enrollments[i].completedTopics :
         (/\ enrollments[i].completedTopics[j].sectionIndex
               = enrollments[i].completedTopics[k].sectionIndex
          /\ enrollments[i].completedTopics[j].topicIndex
               = enrollments[i].completedTopics[k].topicIndex)
         => j = k

====
